---- MODULE Spec2Model ----
(***************************************************************************)
(* A model of vsenv.py: main(), _setup_env(arch, force) and                *)
(* _windows_detect_native_arch().                                          *)
(*                                                                         *)
(* Python strings are TLA+ strings; a character is a string of length 1.   *)
(* The outside world (the platform, the process environment, the files the *)
(* run looks at, the operating-system API, the two subprocesses) supplies  *)
(* the inputs: the process environment and the call are fixed in Init, the *)
(* result of every other observation is chosen when the code makes it.     *)
(***************************************************************************)
EXTENDS Integers, Sequences, FiniteSets, TLC

VARIABLES
    platform,           \* sys.platform
    environ,            \* os.environ: variable name -> value
    entry,              \* the function that was called: "main" or "_setup_env"
    argv,               \* sys.argv
    arch,               \* _setup_env: the arch parameter / local
    force,              \* _setup_env: the force parameter
    onPath,             \* the candidate compilers found to resolve on the search path
    api,                \* what the process-information API did in this run
    fs,                 \* path -> exists, for the paths the run looked at or changed
    pc,                 \* the position in the code
    env,                \* _setup_env: the local env (None before line 55)
    out,                \* _setup_env: the local out
    installation_path,  \* _setup_env: the local installation_path
    vcvars,             \* _setup_env: the local vcvars
    separator,          \* _setup_env: the local separator
    bat,                \* _setup_env: the local bat
    raised,             \* the exception that left _setup_env
    uncaught,           \* the exception that left main
    stderr,             \* what was written to sys.stderr, in order
    exitStatus,         \* the exit status of the process
    calls,              \* the external operations performed, in order
    execEnv             \* the environment handed to os.execvpe

vars == <<platform, environ, entry, argv, arch, force, onPath, api, fs, pc, env,
          out, installation_path, vcvars, separator, bat, raised, uncaught,
          stderr, exitStatus, calls, execEnv>>

-----------------------------------------------------------------------------
(* Values *)

\* Python's None, where a string is expected.
None == "<None>"

\* An environment that has not been assigned.
NoEnv == [k \in {} |-> ""]

\* No exception.
NoExc == [type |-> "", msg |-> ""]

Exc(type, msg) == [type |-> type, msg |-> msg]

\* The length of the script outputs explored by ParseSpec.
MaxLen == 7

-----------------------------------------------------------------------------
(* String helpers *)

CharAt(s, i) == SubSeq(s, i, i)

\* str.lower() on one character, for the letters that occur in the model.
LowerChar(c) ==
    CASE c = "A" -> "a"
      [] c = "D" -> "d"
      [] c = "I" -> "i"
      [] c = "M" -> "m"
      [] c = "R" -> "r"
      [] c = "X" -> "x"
      [] OTHER -> c

RECURSIVE Lower(_)
\* str.lower()
Lower(s) == IF s = "" THEN "" ELSE LowerChar(Head(s)) \o Lower(Tail(s))

\* The smallest i >= from with CharAt(s, i) = c, or 0 (str.find).
RECURSIVE Find(_, _, _)
Find(s, c, from) ==
    IF from > Len(s) THEN 0
    ELSE IF CharAt(s, from) = c THEN from
    ELSE Find(s, c, from + 1)

\* The largest i with CharAt(s, i) = c, or 0 (str.rfind).
RECURSIVE FindLast(_, _, _)
FindLast(s, c, from) ==
    IF from < 1 THEN 0
    ELSE IF CharAt(s, from) = c THEN from
    ELSE FindLast(s, c, from - 1)

\* Split1 as line.rsplit(sep, 1): the line is cut at its last separator.
Split1AtLast(line, sep) ==
    LET i == FindLast(line, sep, Len(line))
    IN  IF i = 0 THEN <<line>>
        ELSE <<SubSeq(line, 1, i - 1), SubSeq(line, i + 1, Len(line))>>

\* line.split(sep, 1)
Split1(line, sep) ==
    LET i == Find(line, sep, 1)
    IN  IF i = 0 THEN <<line>>
        ELSE <<SubSeq(line, 1, i - 1), SubSeq(line, i + 1, Len(line))>>

\* str.splitlines(), for the line boundaries "\n", "\r" and "\r\n".
RECURSIVE SplitFrom(_, _, _)
SplitFrom(s, i, cur) ==
    IF i > Len(s) THEN (IF cur = "" THEN <<>> ELSE <<cur>>)
    ELSE IF CharAt(s, i) = "\n" THEN <<cur>> \o SplitFrom(s, i + 1, "")
    ELSE IF CharAt(s, i) = "\r"
         THEN IF i < Len(s) /\ CharAt(s, i + 1) = "\n"
              THEN <<cur>> \o SplitFrom(s, i + 2, "")
              ELSE <<cur>> \o SplitFrom(s, i + 1, "")
    ELSE SplitFrom(s, i + 1, cur \o CharAt(s, i))

splitlines(s) == SplitFrom(s, 1, "")

\* os.environ.get(name, default)
EnvironGet(e, name, default) == IF name \in DOMAIN e THEN e[name] ELSE default

\* d[k] = v on a dict
Put(d, k, v) == [x \in DOMAIN d \cup {k} |-> IF x = k THEN v ELSE d[x]]

\* bool(s) for a string or None
Truthy(s) == s # None /\ s # ""

-----------------------------------------------------------------------------
(* Paths (pathlib.WindowsPath) *)

\* pathlib keeps a Windows path with backslashes: "/" becomes "\".
RECURSIVE WinPath(_)
WinPath(s) ==
    IF s = "" THEN ""
    ELSE (IF Head(s) = "/" THEN "\\" ELSE Head(s)) \o WinPath(Tail(s))

\* pathlib.Path(a, b) and a / b
PathJoin(a, b) == WinPath(a) \o "\\" \o WinPath(b)

\* tmp.name, the name tempfile gives the temporary script.
TmpName == "C:\\Temp\\tmpk3x9_w1.bat"

\* pathlib.Path.exists(), on the part of the file system the run has seen.
Exists(files, path) == path \in DOMAIN files /\ files[path]

-----------------------------------------------------------------------------
(* _windows_detect_native_arch, lines 16-51 *)

\* Lines 30-37: the image-file machine constants the code knows
\* (0x8664, 0x014C, 0xAA64, 0x01C4).
NativeArchTag(code) ==
    CASE code = 34404 -> "amd64"
      [] code = 332   -> "x86"
      [] code = 43620 -> "arm64"
      [] code = 452   -> "arm"
      [] OTHER -> None

\* What kernel32.IsWow64Process2 can do: be unavailable (AttributeError or
\* OSError, caught on line 38), return 0, or return non-zero with a machine
\* code (here also 0x0200, IA64, and 0, unknown).
ApiOutcomes ==
    {[kind |-> "unavailable", native |-> 0], [kind |-> "failed", native |-> 0]}
    \cup {[kind |-> "ok", native |-> c] : c \in {34404, 332, 43620, 452, 512, 0}}

ApiNotCalled == [kind |-> "not called", native |-> 0]

\* Lines 21-39
ApiArch(a) == IF a.kind = "ok" THEN NativeArchTag(a.native) ELSE None

\* EnvArch without .lower(): the values of the variables are returned as
\* they are.
EnvArchNotLowered(e) ==
    LET w == EnvironGet(e, "PROCESSOR_ARCHITEW6432", "")
    IN  IF w # "" THEN [exc |-> NoExc, value |-> w]
        ELSE IF "PROCESSOR_ARCHITECTURE" \in DOMAIN e
             THEN [exc |-> NoExc, value |-> e["PROCESSOR_ARCHITECTURE"]]
             ELSE [exc |-> Exc("Error", "Unable to detect native OS architecture"),
                   value |-> None]

\* Lines 44-51
EnvArch(e) ==
    LET w == Lower(EnvironGet(e, "PROCESSOR_ARCHITEW6432", ""))
    IN  IF w # "" THEN [exc |-> NoExc, value |-> w]
        ELSE IF "PROCESSOR_ARCHITECTURE" \in DOMAIN e
             THEN [exc |-> NoExc, value |-> Lower(e["PROCESSOR_ARCHITECTURE"])]
             ELSE [exc |-> Exc("Error", "Unable to detect native OS architecture"),
                   value |-> None]

windows_detect_native_arch(plat, a, e) ==
    IF plat # "win32" THEN [exc |-> NoExc, value |-> None]
    ELSE IF ApiArch(a) # None THEN [exc |-> NoExc, value |-> ApiArch(a)]
    ELSE EnvArch(e)

-----------------------------------------------------------------------------
(* _setup_env, lines 54-140: the pure parts *)

\* IsCygwin testing for another compatibility layer's OSTYPE.
IsCygwinMsys(e) == EnvironGet(e, "OSTYPE", None) = "msys"

\* Line 59
IsCygwin(e) == EnvironGet(e, "OSTYPE", None) = "cygwin"

\* Line 63
Compilers == <<"cc", "gcc", "clang", "clang-cl">>

\* The builtin function compile, which line 64 passes to shutil.which.
BuiltinCompile == "<built-in function compile>"

\* Line 64: the argument of shutil.which is the name compile, not the loop
\* variable compiler.
WhichArgument(compiler) == BuiltinCompile

\* shutil.which(cmd): os.fspath refuses what is not a str, bytes or PathLike.
which(cmd, resolvable) ==
    IF cmd = BuiltinCompile
    THEN [exc |-> Exc("TypeError",
                      "expected str, bytes or os.PathLike object, not builtin_function_or_method"),
          value |-> FALSE]
    ELSE [exc |-> NoExc, value |-> cmd \in resolvable]

\* Lines 63-65: the loop, from its i-th candidate. "found" is the return on
\* line 65, "none" is the loop running out.
RECURSIVE CompilerSearchFrom(_, _)
CompilerSearchFrom(i, resolvable) ==
    IF i > Len(Compilers) THEN [exc |-> NoExc, value |-> "none"]
    ELSE LET r == which(WhichArgument(Compilers[i]), resolvable)
         IN  IF r.exc # NoExc THEN [exc |-> r.exc, value |-> "none"]
             ELSE IF r.value THEN [exc |-> NoExc, value |-> "found"]
             ELSE CompilerSearchFrom(i + 1, resolvable)

\* a or b
PyOr(a, b) == IF Truthy(a) THEN a ELSE b

\* Line 69
ProgramFilesRoot(e) ==
    PyOr(EnvironGet(e, "ProgramFiles(x86)", None), EnvironGet(e, "ProgramFiles", None))

\* Line 71
VswherePath(root) == PathJoin(root, "Microsoft Visual Studio/Installer/vswhere.exe")

\* JSON values
JArray(items) == [t |-> "array", items |-> items]
JObject(fields) == [t |-> "object", fields |-> fields]
JString(s) == [t |-> "string", s |-> s]
JNull == [t |-> "null"]
NoFields == [k \in {} |-> JNull]

\* The standard outputs of vswhere.exe that the model feeds to line 88.
VswhereOutputs ==
    { "", "not json", "[]", "{}", "null", "[{}]",
      "[{\"installationPath\": \"C:/VS\"}]",
      "[{\"installationPath\": \"C:/VS\"}, {\"installationPath\": \"D:/Old\"}]" }

\* json.loads on these documents.
json_loads(doc) ==
    CASE doc = "[]"   -> [exc |-> NoExc, value |-> JArray(<<>>)]
      [] doc = "{}"   -> [exc |-> NoExc, value |-> JObject(NoFields)]
      [] doc = "null" -> [exc |-> NoExc, value |-> JNull]
      [] doc = "[{}]" -> [exc |-> NoExc, value |-> JArray(<<JObject(NoFields)>>)]
      [] doc = "[{\"installationPath\": \"C:/VS\"}]" ->
            [exc |-> NoExc,
             value |-> JArray(<<JObject([installationPath |-> JString("C:/VS")])>>)]
      [] doc = "[{\"installationPath\": \"C:/VS\"}, {\"installationPath\": \"D:/Old\"}]" ->
            [exc |-> NoExc,
             value |-> JArray(<<JObject([installationPath |-> JString("C:/VS")]),
                                JObject([installationPath |-> JString("D:/Old")])>>)]
      [] OTHER -> [exc |-> Exc("JSONDecodeError", "Expecting value: line 1 column 1 (char 0)"),
                   value |-> JNull]

\* bool(v) of a parsed document
JsonTruthy(v) ==
    CASE v.t = "array"  -> v.items # <<>>
      [] v.t = "object" -> DOMAIN v.fields # {}
      [] v.t = "string" -> v.s # ""
      [] OTHER -> FALSE

\* NotInfo as "info is None": an empty array passes.
NotInfoIsNone(info) == info.t = "null"

\* Line 89: not info
NotInfo(info) == ~JsonTruthy(info)

\* info[0]
FirstItem(v) ==
    CASE v.t = "array" ->
            IF v.items = <<>>
            THEN [exc |-> Exc("IndexError", "list index out of range"), value |-> JNull]
            ELSE [exc |-> NoExc, value |-> v.items[1]]
      [] v.t = "object" -> [exc |-> Exc("KeyError", "0"), value |-> JNull]
      [] OTHER -> [exc |-> Exc("TypeError", "object is not subscriptable"), value |-> JNull]

\* record['installationPath']
InstallationPathOf(v) ==
    CASE v.t = "object" ->
            IF "installationPath" \in DOMAIN v.fields
            THEN [exc |-> NoExc, value |-> v.fields["installationPath"]]
            ELSE [exc |-> Exc("KeyError", "'installationPath'"), value |-> JNull]
      [] OTHER -> [exc |-> Exc("TypeError", "object is not subscriptable"), value |-> JNull]

\* Lines 88-92: the installation path, or the exception.
ParseInfo(doc) ==
    LET loaded == json_loads(doc)
        first  == FirstItem(loaded.value)
        field  == InstallationPathOf(first.value)
    IN  IF loaded.exc # NoExc THEN [exc |-> loaded.exc, value |-> None]
        ELSE IF NotInfo(loaded.value)
             THEN [exc |-> Exc("Error", "Could not parse vswhere.exe output"), value |-> None]
        ELSE IF first.exc # NoExc THEN [exc |-> first.exc, value |-> None]
        ELSE IF field.exc # NoExc THEN [exc |-> field.exc, value |-> None]
        ELSE [exc |-> NoExc, value |-> WinPath(field.value.s)]

\* VcvarsCandidates with the arm64 fallback copied from the other branch.
VcvarsCandidatesCopied(target) ==
    IF target = "arm64"
    THEN <<"VC/Auxiliary/Build/vcvarsarm64.bat", "VC/Auxiliary/Build/vcvarsx86_amd64.bat">>
    ELSE <<"VC/Auxiliary/Build/vcvars64.bat", "VC/Auxiliary/Build/vcvarsx86_amd64.bat">>

\* Lines 94-102: the primary and the fallback script for the target.
VcvarsCandidates(target) ==
    IF target = "arm64"
    THEN <<"VC/Auxiliary/Build/vcvarsarm64.bat", "VC/Auxiliary/Build/vcvarsx86_arm64.bat">>
    ELSE <<"VC/Auxiliary/Build/vcvars64.bat", "VC/Auxiliary/Build/vcvarsx86_amd64.bat">>

\* str(uuid.uuid4()), abbreviated to one character that is neither "=" nor a
\* line boundary.
Uuid4Values == {"#"}

\* Lines 108-113: textwrap.dedent of the f-string.
BatText(script, sep) ==
    "\n@ECHO OFF\ncall \"" \o script \o "\"\nECHO " \o sep \o "\nSET\n"

\* Lines 126-128: what is left of the iterator after the first loop.
RECURSIVE AfterSeparator(_, _)
AfterSeparator(lines, sep) ==
    IF lines = <<>> THEN <<>>
    ELSE IF Head(lines) = sep THEN Tail(lines)
    ELSE AfterSeparator(Tail(lines), sep)

\* Lines 130-138: the body of the second loop, for one line.
MergeLine(e, line) ==
    IF line = "" THEN e
    ELSE LET parts == Split1(line, "=")
         IN  IF Len(parts) # 2 THEN e ELSE Put(e, parts[1], parts[2])

\* Lines 129-138: the second loop.
RECURSIVE MergeLines(_, _)
MergeLines(e, lines) ==
    IF lines = <<>> THEN e
    ELSE MergeLines(MergeLine(e, Head(lines)), Tail(lines))

\* Lines 125-140
MergeOutput(e, text, sep) == MergeLines(e, AfterSeparator(splitlines(text), sep))

-----------------------------------------------------------------------------
(* The inputs fixed before the program starts *)

Platforms == {"win32", "linux"}

\* The variables of the process environment that vary in the model; None
\* stands for a variable that is not set. A is a variable the program does
\* not consult. (A variable of a Windows process is never set to "".)
EnvNames ==
    [ostype |-> "OSTYPE", wow |-> "PROCESSOR_ARCHITEW6432",
     proc |-> "PROCESSOR_ARCHITECTURE", pf86 |-> "ProgramFiles(x86)",
     pf |-> "ProgramFiles", other |-> "A"]

EnvChoices ==
    [ostype : {None, "cygwin", "msys"},
     wow    : {None, "ARM64"},
     proc   : {None, "AMD64", "IA64"},
     pf86   : {None, "C:\\Program Files (x86)"},
     pf     : {None, "C:\\Program Files"},
     other  : {None, "AA"}]

EnvOf(c) ==
    LET set == {k \in DOMAIN c : c[k] # None}
    IN  [n \in {EnvNames[k] : k \in set} |-> c[CHOOSE k \in set : EnvNames[k] = n]]

Environs == {EnvOf(c) : c \in EnvChoices}

\* The sets of candidate compilers that resolve on the search path.
SearchPaths == {{}, {"gcc"}, {"clang-cl"}}

\* The calls: main() with or without a command, or _setup_env(arch, force).
Invocations ==
    {[entry |-> "main", argv |-> a, arch |-> None, force |-> FALSE] :
        a \in {<<"vsenv">>, <<"vsenv", "cl">>}}
    \cup {[entry |-> "_setup_env", argv |-> <<"python">>, arch |-> a, force |-> f] :
        a \in {None, "arm64", "x86"}, f \in BOOLEAN}

\* The standard outputs of the temporary script that Spec feeds to line 125.
ScriptOutputs ==
    { "",
      "A=0\n",
      "#\nINCLUDE=C:\\VS\\include\n",
      "A=0\n#\nA=1\nA=2\n\nB\nC=\nD=x=y\n" }

\* The names os has, among those the program uses.
OsAttributes == {"environ", "fspath", "unlink", "execvpe", "_exit"}

\* Line 146: except Error
CaughtByMain(e) == e.type = "Error"

Init ==
    /\ platform \in Platforms
    /\ environ \in Environs
    /\ onPath = {}
    /\ \E c \in Invocations :
        /\ entry = c.entry
        /\ argv = c.argv
        /\ arch = c.arch
        /\ force = c.force
        /\ pc = IF c.entry = "main" THEN "main" ELSE "setup"
    /\ api = ApiNotCalled
    /\ fs = [p \in {} |-> FALSE]
    /\ env = NoEnv
    /\ out = None
    /\ installation_path = None
    /\ vcvars = None
    /\ separator = None
    /\ bat = None
    /\ raised = NoExc
    /\ uncaught = NoExc
    /\ stderr = <<>>
    /\ exitStatus = <<>>
    /\ calls = <<>>
    /\ execEnv = NoEnv

-----------------------------------------------------------------------------
(* The steps *)

inputs == <<platform, environ, entry, argv>>
locals == <<out, installation_path, vcvars, separator, bat>>
process == <<uncaught, stderr, exitStatus, execEnv>>

\* Line 145: main calls _setup_env(None, True).
main_call ==
    /\ pc = "main"
    /\ arch' = None
    /\ force' = TRUE
    /\ pc' = "setup"
    /\ UNCHANGED <<inputs, onPath, locals, process, api, fs, env, raised, calls>>

\* Lines 55-58: not on Windows.
setup_not_windows ==
    /\ pc = "setup"
    /\ platform # "win32"
    /\ env' = environ
    /\ pc' = "returned"
    /\ UNCHANGED <<inputs, onPath, locals, process, arch, force, api, fs, raised, calls>>

\* Lines 55-60: on Windows under cygwin.
setup_cygwin ==
    /\ pc = "setup"
    /\ platform = "win32"
    /\ IsCygwin(environ)
    /\ env' = environ
    /\ pc' = "returned"
    /\ UNCHANGED <<inputs, onPath, locals, process, arch, force, api, fs, raised, calls>>

\* Lines 55-62: discovery is forced, the compiler search is skipped.
setup_forced ==
    /\ pc = "setup"
    /\ platform = "win32"
    /\ ~IsCygwin(environ)
    /\ force
    /\ env' = environ
    /\ pc' = "arch"
    /\ UNCHANGED <<inputs, onPath, locals, process, arch, force, api, fs, raised, calls>>

\* Lines 55-65: the compiler search.
setup_compiler_search ==
    /\ pc = "setup"
    /\ platform = "win32"
    /\ ~IsCygwin(environ)
    /\ ~force
    /\ env' = environ
    /\ calls' = Append(calls, "which")
    /\ \E resolvable \in SearchPaths :
        LET r == CompilerSearchFrom(1, resolvable)
        IN  /\ onPath' = resolvable
            /\ IF r.exc # NoExc THEN raised' = r.exc /\ pc' = "raised"
               ELSE IF r.value = "found" THEN raised' = raised /\ pc' = "returned"
               ELSE raised' = raised /\ pc' = "arch"
    /\ UNCHANGED <<inputs, locals, process, arch, force, api, fs>>

\* Line 67, arch given by the caller.
arch_given ==
    /\ pc = "arch"
    /\ Truthy(arch)
    /\ pc' = "locate"
    /\ UNCHANGED <<inputs, onPath, locals, process, arch, force, api, fs, env, raised, calls>>

\* Line 67, arch detected (lines 16-51).
arch_detect ==
    /\ pc = "arch"
    /\ ~Truthy(arch)
    /\ \E a \in ApiOutcomes :
        LET r == windows_detect_native_arch(platform, a, environ)
        IN  /\ api' = a
            /\ calls' = Append(calls, "_windows_detect_native_arch")
            /\ IF r.exc # NoExc
               THEN raised' = r.exc /\ pc' = "raised" /\ arch' = arch
               ELSE raised' = raised /\ pc' = "locate" /\ arch' = r.value
    /\ UNCHANGED <<inputs, onPath, locals, process, force, fs, env>>

\* Lines 69-73: the locator under the program-files root.
locate_vswhere ==
    /\ pc = "locate"
    /\ LET root == ProgramFilesRoot(environ)
       IN  IF root = None
           THEN /\ raised' = Exc("TypeError",
                        "expected str, bytes or os.PathLike object, not NoneType")
                /\ pc' = "raised"
                /\ fs' = fs
           ELSE \E exists \in BOOLEAN :
                /\ fs' = (VswherePath(root) :> exists) @@ fs
                /\ IF Exists(fs', VswherePath(root))
                   THEN raised' = raised /\ pc' = "vswhere"
                   ELSE /\ raised' = Exc("Error", "Could not find " \o VswherePath(root))
                        /\ pc' = "raised"
    /\ UNCHANGED <<inputs, onPath, locals, process, arch, force, api, env, calls>>

\* What running vswhere.exe can give: a non-zero exit, or an output.
VswhereRuns ==
    {[rc |-> 1, stdout |-> ""]} \cup {[rc |-> 0, stdout |-> d] : d \in VswhereOutputs}

\* Line 86: subprocess.run(cmd, stdout=PIPE, check=True)
run_vswhere ==
    /\ pc = "vswhere"
    /\ \E r \in VswhereRuns :
        /\ calls' = Append(calls, "vswhere.exe")
        /\ IF r.rc # 0
           THEN /\ raised' = Exc("CalledProcessError", "returned non-zero exit status")
                /\ pc' = "raised"
                /\ out' = out
           ELSE raised' = raised /\ pc' = "info" /\ out' = r.stdout
    /\ UNCHANGED <<inputs, onPath, process, arch, force, api, fs, env,
                   installation_path, vcvars, separator, bat>>

\* Lines 88-92
parse_info ==
    /\ pc = "info"
    /\ LET r == ParseInfo(out)
       IN  IF r.exc # NoExc
           THEN raised' = r.exc /\ pc' = "raised" /\ installation_path' = installation_path
           ELSE raised' = raised /\ pc' = "vcvars" /\ installation_path' = r.value
    /\ UNCHANGED <<inputs, onPath, process, arch, force, api, fs, env, calls,
                   out, vcvars, separator, bat>>

\* Lines 94-105: the fallback is looked at only when the primary is missing.
select_vcvars ==
    /\ pc = "vcvars"
    /\ LET primary  == PathJoin(installation_path, VcvarsCandidates(arch)[1])
           fallback == PathJoin(installation_path, VcvarsCandidates(arch)[2])
       IN  \E p \in BOOLEAN, f \in BOOLEAN :
            /\ p => ~f
            /\ fs' = IF p THEN (primary :> TRUE) @@ fs
                     ELSE (primary :> FALSE) @@ (fallback :> f) @@ fs
            /\ vcvars' = IF Exists(fs', primary) THEN primary ELSE fallback
            /\ IF Exists(fs', vcvars')
               THEN raised' = raised /\ pc' = "tmp"
               ELSE raised' = Exc("Error", "Could not find vcvars.bat") /\ pc' = "raised"
    /\ UNCHANGED <<inputs, onPath, process, arch, force, api, env, calls,
                   out, installation_path, separator, bat>>

\* Lines 107-118: the temporary script. NamedTemporaryFile can fail before
\* the file exists; write, flush or close can fail once it exists.
create_tmp ==
    /\ pc = "tmp"
    /\ \E sep \in Uuid4Values, how \in {"ok", "not created", "not written"} :
        /\ separator' = sep
        /\ bat' = BatText(vcvars, sep)
        /\ calls' = Append(calls, "NamedTemporaryFile")
        /\ fs' = IF how = "not created" THEN fs ELSE (TmpName :> TRUE) @@ fs
        /\ IF how = "ok"
           THEN raised' = raised /\ pc' = "script"
           ELSE raised' = Exc("OSError", how) /\ pc' = "raised"
    /\ UNCHANGED <<inputs, onPath, process, arch, force, api, env, out, installation_path, vcvars>>

\* What running the temporary script can give: it cannot be started, it
\* exits non-zero, or it exits zero with an output.
ScriptRuns ==
    {[started |-> FALSE, rc |-> 1, stdout |-> ""], [started |-> TRUE, rc |-> 1, stdout |-> ""]}
    \cup {[started |-> TRUE, rc |-> 0, stdout |-> t] : t \in ScriptOutputs}

\* Lines 120-123: subprocess.run(tmp.name, ..., check=True), then the
\* finally clause.
run_script ==
    /\ pc = "script"
    /\ \E r \in ScriptRuns :
        /\ calls' = calls \o <<"script", "unlink">>
        /\ fs' = (TmpName :> FALSE) @@ fs
        /\ IF ~r.started
           THEN raised' = Exc("OSError", "not started") /\ pc' = "raised" /\ out' = out
           ELSE IF r.rc # 0
           THEN /\ raised' = Exc("CalledProcessError", "returned non-zero exit status")
                /\ pc' = "raised"
                /\ out' = out
           ELSE raised' = raised /\ pc' = "parse" /\ out' = r.stdout
    /\ UNCHANGED <<inputs, onPath, process, arch, force, api, env,
                   installation_path, vcvars, separator, bat>>

\* Lines 125-140
parse_output ==
    /\ pc = "parse"
    /\ env' = MergeOutput(env, out, separator)
    /\ pc' = "returned"
    /\ UNCHANGED <<inputs, onPath, locals, process, arch, force, api, fs, raised, calls>>

\* main_except without the exit: the handler prints the message and main
\* goes on to line 149 with the process environment.
main_except_falls_through ==
    /\ pc = "raised"
    /\ entry = "main"
    /\ CaughtByMain(raised)
    /\ stderr' = Append(stderr, "error: " \o raised.msg)
    /\ env' = environ
    /\ pc' = "returned"
    /\ UNCHANGED <<inputs, onPath, locals, arch, force, api, fs, raised, calls,
                   uncaught, exitStatus, execEnv>>

\* Lines 146-148: the handler prints the message and evaluates os.exit(1).
main_except ==
    /\ pc = "raised"
    /\ entry = "main"
    /\ CaughtByMain(raised)
    /\ stderr' = Append(stderr, "error: " \o raised.msg)
    /\ IF "exit" \in OsAttributes
       THEN exitStatus' = <<1>> /\ uncaught' = uncaught /\ pc' = "exited"
       ELSE /\ uncaught' = Exc("AttributeError", "module 'os' has no attribute 'exit'")
            /\ exitStatus' = exitStatus
            /\ pc' = "uncaught"
    /\ UNCHANGED <<inputs, onPath, locals, arch, force, api, fs, env, raised, calls, execEnv>>

\* Lines 144-146: an exception that is not an Error leaves main.
main_propagate ==
    /\ pc = "raised"
    /\ entry = "main"
    /\ ~CaughtByMain(raised)
    /\ uncaught' = raised
    /\ pc' = "uncaught"
    /\ UNCHANGED <<inputs, onPath, locals, arch, force, api, fs, env, raised, calls,
                   stderr, exitStatus, execEnv>>

\* Line 149: os.execvpe(sys.argv[1], sys.argv[1:], env)
main_exec ==
    /\ pc = "returned"
    /\ entry = "main"
    /\ IF Len(argv) < 2
       THEN /\ uncaught' = Exc("IndexError", "list index out of range")
            /\ pc' = "uncaught"
            /\ UNCHANGED <<calls, execEnv>>
       ELSE \E found \in BOOLEAN :
            /\ calls' = Append(calls, "execvpe")
            /\ execEnv' = env
            /\ IF found
               THEN uncaught' = uncaught /\ pc' = "replaced"
               ELSE /\ uncaught' = Exc("FileNotFoundError", "No such file or directory")
                    /\ pc' = "uncaught"
    /\ UNCHANGED <<inputs, onPath, locals, arch, force, api, fs, env, raised, stderr, exitStatus>>

\* Lines 152-153: an exception that leaves main ends the interpreter with a
\* traceback on stderr and exit status 1.
interpreter_exit ==
    /\ pc = "uncaught"
    /\ stderr' = Append(stderr, "Traceback (most recent call last): "
                                    \o uncaught.type \o ": " \o uncaught.msg)
    /\ exitStatus' = <<1>>
    /\ pc' = "exited"
    /\ UNCHANGED <<inputs, onPath, locals, arch, force, api, fs, env, raised, calls,
                   uncaught, execEnv>>

Next ==
    \/ main_call
    \/ setup_not_windows
    \/ setup_cygwin
    \/ setup_forced
    \/ setup_compiler_search
    \/ arch_given
    \/ arch_detect
    \/ locate_vswhere
    \/ run_vswhere
    \/ parse_info
    \/ select_vcvars
    \/ create_tmp
    \/ run_script
    \/ parse_output
    \/ main_except
    \/ main_propagate
    \/ main_exec
    \/ interpreter_exit

Spec == Init /\ [][Next]_vars

-----------------------------------------------------------------------------
(* Lines 125-140 on every short script output *)

\* The characters of the script outputs: a letter, "=", the separator's
\* character and the line boundary.
Alphabet == {"A", "=", "#", "\n"}

\* The strings over Alphabet of length at most n.
RECURSIVE Texts(_)
Texts(n) ==
    IF n = 0 THEN {""}
    ELSE LET shorter == Texts(n - 1)
         IN  shorter \cup {t \o c : t \in {u \in shorter : Len(u) = n - 1}, c \in Alphabet}

\* _setup_env("amd64", True) after line 123: the locator and vcvars64.bat
\* were found, the temporary script has run and exited zero with any short
\* output or one of the outputs of Spec, and the script is deleted.
ParseInit ==
    /\ platform = "win32"
    /\ environ \in {EnvOf([ostype |-> None, wow |-> None, proc |-> None, pf86 |-> None,
                           pf |-> "C:\\Program Files", other |-> a]) : a \in {None, "AA"}}
    /\ entry = "_setup_env"
    /\ argv = <<"python">>
    /\ arch = "amd64"
    /\ force = TRUE
    /\ onPath = {}
    /\ api = ApiNotCalled
    /\ installation_path = "C:\\VS"
    /\ vcvars = PathJoin(installation_path, VcvarsCandidates(arch)[1])
    /\ fs = (TmpName :> FALSE) @@ (vcvars :> TRUE)
            @@ (VswherePath(ProgramFilesRoot(environ)) :> TRUE)
    /\ pc = "parse"
    /\ env = environ
    /\ out \in Texts(MaxLen) \cup ScriptOutputs
    /\ separator \in Uuid4Values
    /\ bat = BatText(vcvars, separator)
    /\ raised = NoExc
    /\ uncaught = NoExc
    /\ stderr = <<>>
    /\ exitStatus = <<>>
    /\ calls = <<"vswhere.exe", "NamedTemporaryFile", "script", "unlink">>
    /\ execEnv = NoEnv

ParseNext == parse_output

ParseSpec == ParseInit /\ [][ParseNext]_vars

-----------------------------------------------------------------------------
(* Vocabulary of the properties *)

Called(name) == \E i \in DOMAIN calls : calls[i] = name

\* _setup_env has returned or raised.
SetupFinished == pc \in {"returned", "raised", "uncaught", "exited", "replaced"}

\* The line has a "=".
HasEquals(line) == \E j \in 1..Len(line) : CharAt(line, j) = "="

\* The position of the first "=" of a line that has one.
FirstEquals(line) ==
    CHOOSE j \in 1..Len(line) :
        /\ CharAt(line, j) = "="
        /\ \A k \in 1..(j - 1) : CharAt(line, k) # "="

KeyOf(line) == SubSeq(line, 1, FirstEquals(line) - 1)
ValueOf(line) == SubSeq(line, FirstEquals(line) + 1, Len(line))

\* The lines that assign: after the first separator line, not blank, with "=".
Assigning(lines, sep) ==
    {i \in DOMAIN lines :
        /\ \E s \in 1..(i - 1) : lines[s] = sep
        /\ lines[i] # ""
        /\ HasEquals(lines[i])}

\* The original environment overridden by the assigning lines, the last
\* line of a key winning.
Overridden(orig, text, sep) ==
    LET lines == splitlines(text)
        I == Assigning(lines, sep)
        keys == {KeyOf(lines[i]) : i \in I}
        last(k) == CHOOSE i \in I :
                      /\ KeyOf(lines[i]) = k
                      /\ \A j \in I : KeyOf(lines[j]) = k => j <= i
    IN  [k \in DOMAIN orig \cup keys |->
            IF k \in keys THEN ValueOf(lines[last(k)]) ELSE orig[k]]

\* The environment _setup_env returns when nothing fails.
ExpectedEnv ==
    IF separator = None THEN environ ELSE Overridden(environ, out, separator)

DetectionError == Exc("Error", "Unable to detect native OS architecture")
ToolingOutputError == Exc("Error", "Could not parse vswhere.exe output")
VcvarsNotFoundError == Exc("Error", "Could not find vcvars.bat")

-----------------------------------------------------------------------------
(* Properties *)

\* C1: in a run of main, os.execvpe is attempted only when _setup_env raised
\* nothing, and the environment handed to it is the fully merged one.
C1_NoExecAfterFailure ==
    Called("execvpe") =>
        /\ raised = NoExc
        /\ execEnv = ExpectedEnv

\* C1, the case: main ended after the script subprocess failed, and no exec
\* was attempted.
C1_Witness ==
    /\ entry = "main"
    /\ pc = "exited"
    /\ raised.type = "CalledProcessError"
    /\ Called("script")
    /\ ~Called("execvpe")

\* C2: when _setup_env raises an Error, main writes "error: <message>" to
\* stderr and the handler ends the process with exit status 1.
C2_HandlerExits ==
    (entry = "main" /\ raised.type = "Error" /\ pc = "exited") =>
        /\ stderr = <<"error: " \o raised.msg>>
        /\ exitStatus = <<1>>
        /\ uncaught = NoExc

\* C3: once the temporary script has been created, it does not exist when
\* _setup_env has finished, however it finished.
C3_TmpDeleted ==
    (SetupFinished /\ Called("NamedTemporaryFile")) => ~Exists(fs, TmpName)

\* C4: the environment _setup_env returns after the script ran is the
\* original environment overridden by the assigning lines of the output.
C4_MergedEnv ==
    (pc = "returned" /\ separator # None) => env = Overridden(environ, out, separator)

\* C4, the case: a line before the separator has a "=", after the separator
\* two lines assign different values to a key of the original environment,
\* and the returned environment holds the later one.
C4_Witness ==
    /\ pc = "returned"
    /\ separator # None
    /\ LET lines == splitlines(out)
       IN  \E i, j \in Assigning(lines, separator) :
            /\ i < j
            /\ KeyOf(lines[i]) = KeyOf(lines[j])
            /\ ValueOf(lines[i]) # ValueOf(lines[j])
            /\ KeyOf(lines[j]) \in DOMAIN environ
            /\ environ[KeyOf(lines[j])] # ValueOf(lines[j])
            /\ env[KeyOf(lines[j])] = ValueOf(lines[j])
            /\ \E b \in DOMAIN lines : b < i /\ HasEquals(lines[b])

\* C5: when the locator prints an empty JSON array, _setup_env raises the
\* Error "Could not parse vswhere.exe output", env is still the process
\* environment, and no temporary script is created or run.
C5_EmptyArray ==
    (out = "[]" /\ pc # "info") =>
        /\ raised = ToolingOutputError
        /\ env = environ
        /\ ~Called("NamedTemporaryFile")
        /\ ~Called("script")
        /\ TmpName \notin DOMAIN fs

\* C5, the case.
C5_Witness == out = "[]" /\ pc = "raised" /\ Called("vswhere.exe")

\* C6: when the locator output is not JSON, or its first record has no
\* installationPath, _setup_env raises the same Error as for empty output.
C6_ParseFailureIsError ==
    (out \in {"not json", "[{}]"} /\ pc # "info") => raised = ToolingOutputError

\* C7: on native Windows, discovery not forced, a candidate compiler
\* resolving on the search path: _setup_env returns the process environment
\* and runs neither the locator nor the setup script.
C7_CompilerFound ==
    (/\ entry = "_setup_env"
     /\ platform = "win32"
     /\ EnvironGet(environ, "OSTYPE", None) # "cygwin"
     /\ ~force
     /\ onPath # {}
     /\ pc # "setup") =>
        /\ pc = "returned"
        /\ raised = NoExc
        /\ env = environ
        /\ ~Called("vswhere.exe")
        /\ ~Called("script")

\* C8: off Windows, or on Windows with OSTYPE = cygwin, _setup_env returns
\* the process environment and no later stage runs.
C8_NotNativeWindows ==
    (/\ platform # "win32" \/ EnvironGet(environ, "OSTYPE", None) = "cygwin"
     /\ pc \notin {"main", "setup"}) =>
        /\ raised = NoExc
        /\ env = environ
        /\ entry = "_setup_env" => pc = "returned"
        /\ \A i \in DOMAIN calls : calls[i] = "execvpe"
        /\ api = ApiNotCalled
        /\ DOMAIN fs = {}

\* C8, the case: under cygwin, with an arch given and discovery forced.
C8_Witness ==
    /\ platform = "win32"
    /\ EnvironGet(environ, "OSTYPE", None) = "cygwin"
    /\ arch = "arm64"
    /\ force
    /\ pc = "returned"

ArchTags == {"x86", "amd64", "arm64", "arm"}

\* C9: the detector returns one of x86, amd64, arm64, arm or raises the
\* detection Error, whatever the API does and the variables hold.
C9_OnlyTags ==
    Called("_windows_detect_native_arch") =>
        \/ raised = DetectionError
        \/ arch \in ArchTags

\* The machine codes of section 4.1.
KnownCode(a) == a.kind = "ok" /\ a.native \in {34404, 332, 43620, 452}

\* C9, amended: the detector returns the tag of the machine code when the
\* API reports one of the four codes; otherwise the lower-cased value of
\* PROCESSOR_ARCHITEW6432 when that is set and not empty, otherwise the
\* lower-cased value of PROCESSOR_ARCHITECTURE when that is set, whatever
\* string it is; otherwise it raises the detection Error.
C9_TagOrVariable ==
    Called("_windows_detect_native_arch") =>
        IF KnownCode(api)
        THEN /\ raised # DetectionError
             /\ arch \in ArchTags
             /\ arch = "amd64" <=> api.native = 34404
             /\ arch = "x86" <=> api.native = 332
             /\ arch = "arm64" <=> api.native = 43620
             /\ arch = "arm" <=> api.native = 452
        ELSE IF EnvironGet(environ, "PROCESSOR_ARCHITEW6432", "") # ""
        THEN raised # DetectionError /\ arch = Lower(environ["PROCESSOR_ARCHITEW6432"])
        ELSE IF "PROCESSOR_ARCHITECTURE" \in DOMAIN environ
        THEN raised # DetectionError /\ arch = Lower(environ["PROCESSOR_ARCHITECTURE"])
        ELSE raised = DetectionError

\* C9, the case: the API is of no help and PROCESSOR_ARCHITECTURE is IA64;
\* the detector returns ia64.
C9_Witness ==
    /\ Called("_windows_detect_native_arch")
    /\ ~KnownCode(api)
    /\ "PROCESSOR_ARCHITEW6432" \notin DOMAIN environ
    /\ EnvironGet(environ, "PROCESSOR_ARCHITECTURE", None) = "IA64"
    /\ arch = "ia64"
    /\ pc = "locate"

\* The setup scripts of section 4.3, step 5, under the installation root.
PrimaryScript ==
    installation_path \o (IF arch = "arm64" THEN "\\VC\\Auxiliary\\Build\\vcvarsarm64.bat"
                          ELSE "\\VC\\Auxiliary\\Build\\vcvars64.bat")
FallbackScript ==
    installation_path \o (IF arch = "arm64" THEN "\\VC\\Auxiliary\\Build\\vcvarsx86_arm64.bat"
                          ELSE "\\VC\\Auxiliary\\Build\\vcvarsx86_amd64.bat")

\* C10: the script used is the primary of the target if it exists, else the
\* fallback if that exists; when neither exists _setup_env raises "Could not
\* find vcvars.bat" and no temporary script is created or run.
C10_ScriptSelection ==
    vcvars # None =>
        IF Exists(fs, PrimaryScript)
        THEN vcvars = PrimaryScript /\ raised # VcvarsNotFoundError
        ELSE IF Exists(fs, FallbackScript)
        THEN vcvars = FallbackScript /\ raised # VcvarsNotFoundError
        ELSE /\ raised = VcvarsNotFoundError
             /\ ~Called("NamedTemporaryFile")
             /\ ~Called("script")
             /\ TmpName \notin DOMAIN fs

\* C10, the case: the target is arm64, only the fallback exists, and
\* _setup_env returns with the fallback in the temporary script.
C10_Witness ==
    /\ vcvars # None
    /\ arch = "arm64"
    /\ ~Exists(fs, PrimaryScript)
    /\ Exists(fs, FallbackScript)
    /\ vcvars = installation_path \o "\\VC\\Auxiliary\\Build\\vcvarsx86_arm64.bat"
    /\ bat = BatText(vcvars, separator)
    /\ pc = "returned"
    /\ raised = NoExc

====
